---- MODULE Spec2Model ----
(***************************************************************************)
(* The prediction-serving path of EmberAlert: the Redis-backed            *)
(* CacheService (app/services/cache_service.py) in front of the           *)
(* PredictionService (app/services/prediction_service.py).                *)
(*                                                                         *)
(* Numbers.  Weather fields are whole numbers.  A model score is carried  *)
(* in ten-thousandths (2999 is 0.2999), a value rounded to three decimals *)
(* in thousandths (300 is 0.300), time in seconds.  NaN stands for the    *)
(* float that is not a number.                                            *)
(***************************************************************************)
EXTENDS Integers, Sequences, FiniteSets, TLC

VARIABLES
    model,         \* PredictionService.model: [loaded |-> FALSE] is None
    redis_client,  \* CacheService.redis_client: "connected" or "None"
    backendUp,     \* whether the Redis server answers (environment)
    store,         \* the Redis keyspace: key -> [value, expireAt]
    now,           \* wall clock, seconds
    last,          \* the most recent call and what it returned (observation)
    inflight       \* per worker, the predict_single request it is inside

vars == <<model, redis_client, backendUp, store, now, last, inflight>>

----------------------------------------------------------------------------
(* Bounds *)

MaxBatch == 3      \* longest batch handed to predict_batch
MaxTicks == 2      \* clock steps taken
MaxWorkers == 2    \* requests served at the same time

(* Program constants *)

CACHE_TTL == 3600
MODEL_VERSION == "v1.0"

TickStep == CACHE_TTL \div 2

----------------------------------------------------------------------------
(* Request dictionaries.  A Python dict is a mapping that remembers the   *)
(* order in which its keys were inserted: order is that sequence of keys, *)
(* fields the mapping.                                                    *)

DeclaredOrder ==
    <<"latitude", "longitude", "temperature", "humidity", "wind_speed",
      "wind_direction", "pressure">>

MkRequest(lat, lon, t, h, w, wd, p) ==
    [order |-> DeclaredOrder,
     fields |-> [latitude |-> lat, longitude |-> lon, temperature |-> t,
                 humidity |-> h, wind_speed |-> w, wind_direction |-> wd,
                 pressure |-> p]]

Reversed(s) == [i \in 1..Len(s) |-> s[Len(s) + 1 - i]]

ObsA == MkRequest(34, -118, 95, 25, 20, 180, 1010)
\* the same field values, supplied in another order
ObsA2 == [ObsA EXCEPT !.order = Reversed(DeclaredOrder)]
\* the same place, other weather
ObsB == MkRequest(34, -118, 60, 70, 5, 0, 1013)

Observations == {ObsA, ObsA2, ObsB}

HasKey(d, k) == k \in DOMAIN d.fields

GetItem(d, k) == d.fields[k]

\* dict.get(k, default)
GetOr(d, k, default) == IF HasKey(d, k) THEN GetItem(d, k) ELSE default

\* mapping[k] = v on a decoded JSON object
SetItem(rec, k, v) == [x \in (DOMAIN rec) \cup {k} |-> IF x = k THEN v ELSE rec[x]]

----------------------------------------------------------------------------
(* Rounding.  RoundDiv(n, d) is n/d rounded to the nearest integer, ties  *)
(* to even, as Python's round does on an exactly representable tie.       *)

RoundDiv(n, d) ==
    LET q == n \div d
        r == n % d
    IN  IF 2 * r < d THEN q
        ELSE IF 2 * r > d THEN q + 1
        ELSE IF q % 2 = 0 THEN q ELSE q + 1

Max(a, b) == IF a >= b THEN a ELSE b
Min(a, b) == IF a <= b THEN a ELSE b

\* float('nan'), as a code no score arithmetic produces
NaN == 0 - 999999

\* a < b on floats: every comparison with NaN is false
Less(a, b) == a # NaN /\ b # NaN /\ a < b

\* np.clip(score, 0, 1), score in ten-thousandths; NaN passes through
clip(score) ==
    IF score = NaN THEN NaN
    ELSE IF score < 0 THEN 0 ELSE IF score > 10000 THEN 10000 ELSE score

\* round(score, 3): ten-thousandths to thousandths; round(nan, 3) is nan
round3(score) == IF score = NaN THEN NaN ELSE RoundDiv(score, 10)

----------------------------------------------------------------------------
(* PredictionService helpers *)

Hour(t) == (t \div 3600) % 24
DayOfYear(t) == 1 + (t \div 86400)
Month(t) == 1 + ((DayOfYear(t) - 1) \div 31)

\* _prepare_features: a one-row frame (a sequence holding one row)
prepare_features(request_data, t) ==
    << [temperature |-> GetItem(request_data, "temperature"),
        humidity |-> GetItem(request_data, "humidity"),
        wind_speed |-> GetItem(request_data, "wind_speed"),
        wind_direction |-> GetOr(request_data, "wind_direction", 0),
        pressure |-> GetOr(request_data, "pressure", 1013),
        month |-> Month(t),
        hour |-> Hour(t),
        day_of_year |-> DayOfYear(t)] >>

\* variant: the thresholds compared with <=
get_risk_level_inclusive(risk_score) ==
    IF risk_score <= 3000 THEN "LOW"
    ELSE IF risk_score <= 6000 THEN "MODERATE"
    ELSE IF risk_score <= 8000 THEN "HIGH"
    ELSE "EXTREME"

\* _get_risk_level, score in ten-thousandths
get_risk_level(risk_score) ==
    IF Less(risk_score, 3000) THEN "LOW"
    ELSE IF Less(risk_score, 6000) THEN "MODERATE"
    ELSE IF Less(risk_score, 8000) THEN "HIGH"
    ELSE "EXTREME"

\* _calculate_factors, each factor in thousandths
calculate_factors(request_data) ==
    LET temp == GetItem(request_data, "temperature")
        humidity == GetItem(request_data, "humidity")
        wind == GetItem(request_data, "wind_speed")
    IN  [temperature_factor |-> Max(0, RoundDiv((temp - 70) * 1000, 40)),
         humidity_factor |-> Max(0, RoundDiv((50 - humidity) * 1000, 50)),
         wind_factor |-> Min(1000, RoundDiv(wind * 1000, 20))]

(* The scoring model is a black box loaded from a file: it maps each row  *)
(* of a frame to a raw score, a float not necessarily inside [0,1].  This *)
(* stand-in is deterministic in the row; the rows the requests produce    *)
(* reach a score just under a threshold, one above 1, one below 0 and NaN.*)
RawScores == <<2999, NaN, -3000, 15000, 3000, 5999, 6000, 7999>>

raw_score(row) ==
    RawScores[((row.temperature + row.humidity + row.hour) % Len(RawScores)) + 1]

\* model.predict(frame): one raw score per row, in row order
model_predict(frame) == [i \in 1..Len(frame) |-> raw_score(frame[i])]

\* the response dictionary assembled on a miss (score is the clipped score)
build_prediction(req, score, t) ==
    [latitude |-> GetItem(req, "latitude"),
     longitude |-> GetItem(req, "longitude"),
     risk_score |-> round3(score),
     risk_level |-> get_risk_level(score),
     timestamp |-> t,
     model_version |-> MODEL_VERSION,
     contributing_factors |-> calculate_factors(req),
     from_cache |-> FALSE]

----------------------------------------------------------------------------
(* JSON text.  An object is written as the sequence of its members, a     *)
(* boolean as the token true or false, a nested object as nested text.    *)

PredictionKeys ==
    <<"latitude", "longitude", "risk_score", "risk_level", "timestamp",
      "model_version", "contributing_factors", "from_cache">>

FactorKeys == <<"temperature_factor", "humidity_factor", "wind_factor">>

Members(rec, keys) == SelectSeq(keys, LAMBDA k : k \in DOMAIN rec)

json_encode(k, v) ==
    IF k = "from_cache" THEN (IF v THEN "true" ELSE "false")
    ELSE IF k = "contributing_factors"
         THEN LET keys == Members(v, FactorKeys)
              IN  [i \in 1..Len(keys) |-> <<keys[i], v[keys[i]]>>]
         ELSE v

json_decode(k, v) ==
    IF k = "from_cache" THEN (v = "true")
    ELSE IF k = "contributing_factors"
         THEN [f \in {v[i][1] : i \in 1..Len(v)} |->
                  v[CHOOSE i \in 1..Len(v) : v[i][1] = f][2]]
         ELSE v

\* json.dumps(prediction)
json_dumps(prediction) ==
    LET keys == Members(prediction, PredictionKeys)
    IN  [i \in 1..Len(keys) |-> <<keys[i], json_encode(keys[i], prediction[keys[i]])>>]

\* json.loads(text)
json_loads(text) ==
    [k \in {text[i][1] : i \in 1..Len(text)} |->
        json_decode(k, text[CHOOSE i \in 1..Len(text) : text[i][1] = k][2])]

----------------------------------------------------------------------------
(* CacheService *)

\* sorted(keys): the request's keys in alphabetical order
SortedFieldNames ==
    <<"humidity", "latitude", "longitude", "pressure", "temperature",
      "wind_direction", "wind_speed">>

\* variant: only the required fields enter the key
sorted_keys_required(data) ==
    SelectSeq(SortedFieldNames,
              LAMBDA k : HasKey(data, k) /\ k \notin {"wind_direction", "pressure"})

sorted_keys(data) == SelectSeq(SortedFieldNames, LAMBDA k : HasKey(data, k))

\* variant: json.dumps(data), the members in insertion order
json_dumps_unsorted(data) ==
    [i \in 1..Len(data.order) |-> <<data.order[i], GetItem(data, data.order[i])>>]

\* json.dumps(data, sort_keys=True): the members in sorted key order
json_dumps_sorted(data) ==
    LET keys == sorted_keys(data)
    IN  [i \in 1..Len(keys) |-> <<keys[i], GetItem(data, keys[i])>>]

\* hashlib.md5(...).hexdigest(): the digest stands for the text it digests
\* (no two texts of the bounded request set share a digest)
md5_hexdigest(text) == <<"md5", text>>

\* variant: the key is derived from the location alone
generate_key_by_location(data) ==
    <<"prediction:",
      md5_hexdigest(<< <<"latitude", GetItem(data, "latitude")>>,
                       <<"longitude", GetItem(data, "longitude")>> >>)>>

\* _generate_key
generate_key(data) == <<"prediction:", md5_hexdigest(json_dumps_sorted(data))>>

IsPredictionKey(key) == key[1] = "prediction:"

NoValue == <<>>

\* Redis GET
redis_get(st, key, t) ==
    IF key \in DOMAIN st /\ st[key].expireAt > t THEN <<st[key].value>> ELSE NoValue

\* Redis SETEX; the server rejects a non-positive expire time
redis_setex_ok(ttl) == ttl > 0

\* variant: a write renews the expiry of every entry of the database
redis_setex_renew_all(st, key, ttl, value, t) ==
    [k \in (DOMAIN st) \cup {key} |->
        IF k = key THEN [value |-> value, expireAt |-> t + ttl]
        ELSE [st[k] EXCEPT !.expireAt = t + ttl]]

\* variant: an entry that is present is kept (SET with NX)
redis_setex_nx(st, key, ttl, value, t) ==
    IF key \in DOMAIN st THEN st
    ELSE [k \in (DOMAIN st) \cup {key} |->
            IF k = key THEN [value |-> value, expireAt |-> t + ttl] ELSE st[k]]

redis_setex(st, key, ttl, value, t) ==
    [k \in (DOMAIN st) \cup {key} |->
        IF k = key THEN [value |-> value, expireAt |-> t + ttl] ELSE st[k]]

\* the body of the try block of CacheService.get
cache_get_try(st, up, request_data, t) ==
    IF ~up THEN [raised |-> TRUE, value |-> NoValue]
    ELSE LET cached == redis_get(st, generate_key(request_data), t)
         IN  IF cached # NoValue
             THEN [raised |-> FALSE, value |-> <<json_loads(cached[1])>>]
             ELSE [raised |-> FALSE, value |-> NoValue]

\* variant: without a client, the call connects if the server answers
cache_get_reconnecting(client, st, up, request_data, t) ==
    IF client = "None" /\ ~up THEN [raised |-> FALSE, value |-> NoValue]
    ELSE LET r == cache_get_try(st, up, request_data, t)
         IN  IF r.raised THEN [raised |-> FALSE, value |-> NoValue] ELSE r

\* variant: the error of the try block is not caught
cache_get_uncaught(client, st, up, request_data, t) ==
    IF client = "None" THEN [raised |-> FALSE, value |-> NoValue]
    ELSE cache_get_try(st, up, request_data, t)

\* CacheService.get: None without a client, None when the try block raises
cache_get(client, st, up, request_data, t) ==
    IF client = "None" THEN [raised |-> FALSE, value |-> NoValue]
    ELSE LET r == cache_get_try(st, up, request_data, t)
         IN  IF r.raised THEN [raised |-> FALSE, value |-> NoValue] ELSE r

\* ttl = ttl or config.CACHE_TTL; the argument is <<>> for None, <<n>> for n
effective_ttl(ttl) == IF ttl = <<>> \/ ttl[1] = 0 THEN CACHE_TTL ELSE ttl[1]

\* variant: the entry is written only if the key holds none (SET ... NX)
cache_set_try_if_absent(st, up, request_data, prediction, ttl, t) ==
    IF ~up \/ ~redis_setex_ok(effective_ttl(ttl))
    THEN [raised |-> TRUE, store |-> st]
    ELSE IF generate_key(request_data) \in DOMAIN st
    THEN [raised |-> FALSE, store |-> st]
    ELSE [raised |-> FALSE,
          store |-> redis_setex(st, generate_key(request_data),
                                effective_ttl(ttl), json_dumps(prediction), t)]

\* the body of the try block of CacheService.set
cache_set_try(st, up, request_data, prediction, ttl, t) ==
    IF ~up \/ ~redis_setex_ok(effective_ttl(ttl))
    THEN [raised |-> TRUE, store |-> st]
    ELSE [raised |-> FALSE,
          store |-> redis_setex(st, generate_key(request_data),
                                effective_ttl(ttl), json_dumps(prediction), t)]

\* variant: the write is left for later (write-behind)
cache_set_deferred(client, st, up, request_data, prediction, ttl, t) ==
    [raised |-> FALSE, store |-> st]

\* variant: the error of the try block is not caught
cache_set_uncaught(client, st, up, request_data, prediction, ttl, t) ==
    IF client = "None" THEN [raised |-> FALSE, store |-> st]
    ELSE cache_set_try(st, up, request_data, prediction, ttl, t)

\* CacheService.set: nothing without a client, nothing when the try block raises
cache_set(client, st, up, request_data, prediction, ttl, t) ==
    IF client = "None" THEN [raised |-> FALSE, store |-> st]
    ELSE LET r == cache_set_try(st, up, request_data, prediction, ttl, t)
         IN  IF r.raised THEN [raised |-> FALSE, store |-> st] ELSE r

----------------------------------------------------------------------------
(* What a call leaves behind for inspection.                              *)
(*   op       the operation called                                        *)
(*   input    the request dictionaries handed in                          *)
(*   ttl      the ttl argument of a direct CacheService.set               *)
(*   arg      the prediction handed to a direct CacheService.set          *)
(*   fault    the exception the environment injected, if any              *)
(*   outcome  "ok" or the exception that left the call                    *)
(*   output   what the call returned                                      *)
(*   hits     per input, whether the cache lookup found a value           *)
(*   calls    the frames handed to model.predict, in call order           *)
(*   cacheOk  a client existed and the server answered during the call    *)
(*   loaded   the model was not None during the call                      *)
(*   time     the clock during the call                                   *)
(*   response what the route answers the HTTP caller, for the operations  *)
(*            behind a prediction route                                   *)

\* str(e) of the exception that left the service call
exception_text(outcome) ==
    IF outcome = "AttributeError"
    THEN "'NoneType' object has no attribute 'predict'"
    ELSE IF outcome = "ValueError" THEN "Must pass 2-d input"
    ELSE "model call failed"

NoResponse == [status |-> 0]

\* variant: every exception is answered as a validation error
route_response_as_validation(op, outcome) ==
    IF op \notin {"predict_single", "predict_batch", "rejected"}
    THEN NoResponse
    ELSE IF outcome = "ok" THEN [status |-> 200]
    ELSE [status |-> 400, error |-> "Validation error"]

(* The try/except of the routes predict and predict_batch: the result     *)
(* with 200, a pydantic ValidationError with 400, any other exception     *)
(* with 500 and the exception's text.                                     *)
route_response(op, outcome) ==
    IF op \notin {"predict_single", "predict_batch", "rejected"}
    THEN NoResponse
    ELSE IF outcome = "ok" THEN [status |-> 200]
    ELSE IF outcome = "ValidationError"
    THEN [status |-> 400, error |-> "Validation error"]
    ELSE [status |-> 500,
          error |-> IF op = "predict_batch" THEN "Batch prediction failed"
                    ELSE "Prediction failed",
          message |-> exception_text(outcome)]

Call(op, input, ttl, arg, res) ==
    [op |-> op, input |-> input, ttl |-> ttl, arg |-> arg,
     fault |-> res.fault, outcome |-> res.outcome, output |-> res.output,
     hits |-> res.hits, calls |-> res.calls,
     cacheOk |-> (redis_client = "connected" /\ backendUp),
     loaded |-> model.loaded, time |-> now,
     response |-> route_response(op, res.outcome)]

NoCall ==
    [op |-> "init", input |-> <<>>, ttl |-> <<>>, arg |-> <<>>,
     fault |-> "none", outcome |-> "ok", output |-> <<>>,
     hits |-> <<>>, calls |-> <<>>,
     cacheOk |-> FALSE, loaded |-> FALSE, time |-> 0,
     response |-> NoResponse]

\* Python truth value of what CacheService.get returned (None or a dict)
\* a Python list built element by element
AsList(f) == SelectSeq(f, LAMBDA x : TRUE)

Truthy(value) == value # NoValue /\ DOMAIN value[1] # {}

----------------------------------------------------------------------------
(* PredictionService.predict_single *)

\* variant: the model is invoked once per row
invoke_model_per_row(frame) ==
    [calls |-> [j \in 1..Len(frame) |-> <<frame[j]>>],
     scores |-> model_predict(frame)]

\* self.model.predict(frame): the frames handed over and the scores returned
invoke_model(frame) == [calls |-> <<frame>>, scores |-> model_predict(frame)]

\* variant: a hit renews the expiry of the entry it is served from
single_result_touch(request_data, fault) ==
    LET cached == cache_get(redis_client, store, backendUp, request_data, now)
        features == prepare_features(request_data, now)
        invoked == invoke_model(features)
        risk_score == clip(invoked.scores[1])
        prediction == build_prediction(request_data, risk_score, now)
        written == cache_set(redis_client, store, backendUp, request_data,
                             prediction, <<>>, now)
        key == generate_key(request_data)
    IN  IF cached.raised
        THEN [outcome |-> "CacheError", output |-> <<>>, hits |-> <<FALSE>>,
              calls |-> <<>>, fault |-> "none", store |-> store]
        ELSE IF Truthy(cached.value)
        THEN [outcome |-> "ok",
              output |-> <<SetItem(cached.value[1], "from_cache", TRUE)>>,
              hits |-> <<TRUE>>, calls |-> <<>>, fault |-> "none",
              store |-> redis_setex(store, key, CACHE_TTL, store[key].value, now)]
        ELSE IF ~model.loaded
        THEN [outcome |-> "AttributeError", output |-> <<>>, hits |-> <<FALSE>>,
              calls |-> <<>>, fault |-> "none", store |-> store]
        ELSE IF fault = "model"
        THEN [outcome |-> "ModelError", output |-> <<>>, hits |-> <<FALSE>>,
              calls |-> invoked.calls, fault |-> "model", store |-> store]
        ELSE IF written.raised
        THEN [outcome |-> "CacheError", output |-> <<>>, hits |-> <<FALSE>>,
              calls |-> invoked.calls, fault |-> "none", store |-> store]
        ELSE [outcome |-> "ok", output |-> <<prediction>>, hits |-> <<FALSE>>,
              calls |-> invoked.calls, fault |-> "none", store |-> written.store]

single_result(request_data, fault) ==
    LET cached == cache_get(redis_client, store, backendUp, request_data, now)
        features == prepare_features(request_data, now)
        invoked == invoke_model(features)
        risk_score == clip(invoked.scores[1])
        prediction == build_prediction(request_data, risk_score, now)
        written == cache_set(redis_client, store, backendUp, request_data,
                             prediction, <<>>, now)
    IN  IF cached.raised
        THEN [outcome |-> "CacheError", output |-> <<>>, hits |-> <<FALSE>>,
              calls |-> <<>>, fault |-> "none", store |-> store]
        ELSE IF Truthy(cached.value)
        THEN [outcome |-> "ok",
              output |-> <<SetItem(cached.value[1], "from_cache", TRUE)>>,
              hits |-> <<TRUE>>, calls |-> <<>>, fault |-> "none",
              store |-> store]
        ELSE IF ~model.loaded
        THEN [outcome |-> "AttributeError", output |-> <<>>, hits |-> <<FALSE>>,
              calls |-> <<>>, fault |-> "none", store |-> store]
        ELSE IF fault = "model"
        THEN [outcome |-> "ModelError", output |-> <<>>, hits |-> <<FALSE>>,
              calls |-> invoked.calls, fault |-> "model", store |-> store]
        ELSE IF written.raised
        THEN [outcome |-> "CacheError", output |-> <<>>, hits |-> <<FALSE>>,
              calls |-> invoked.calls, fault |-> "none", store |-> store]
        ELSE [outcome |-> "ok", output |-> <<prediction>>, hits |-> <<FALSE>>,
              calls |-> invoked.calls, fault |-> "none", store |-> written.store]

\* fault: whether model.predict raises in this call
predict_single(request_data, fault) ==
    \E res \in {single_result(request_data, fault)} :
        /\ store' = res.store
        /\ last' = Call("predict_single", <<request_data>>, <<>>, <<>>, res)
        /\ UNCHANGED <<model, redis_client, backendUp, now, inflight>>

----------------------------------------------------------------------------
(* predict_single under request-parallel serving.  Each worker runs one   *)
(* predict_single call; the calls of different workers interleave between *)
(* the cache lookup, the computation and the write-back.  A worker's      *)
(* record keeps what its call read, computed and wrote:                   *)
(*   pc          "idle", "missed" (after the lookup), "computed" (after   *)
(*               the prediction is assembled), "done", "failed"           *)
(*   request     the request dictionary                                   *)
(*   prediction  <<>> or <<the prediction computed or read>>              *)
(*   computedAt  the clock when the features were built                   *)
(*   missed      the lookup found nothing                                 *)
(*   wrote       the write-back reached the store                         *)

Workers == 1..MaxWorkers

Idle ==
    [pc |-> "idle", request |-> <<>>, prediction |-> <<>>, computedAt |-> 0,
     missed |-> FALSE, wrote |-> FALSE]

NoneInFlight == [w \in Workers |-> Idle]

\* cached = cache_service.get(request_data); a hit returns at once
worker_lookup(w, request_data) ==
    /\ inflight[w].pc = "idle"
    /\ LET cached == cache_get(redis_client, store, backendUp, request_data, now)
       IN  inflight' = [inflight EXCEPT ![w] =
               IF Truthy(cached.value)
               THEN [Idle EXCEPT !.pc = "done", !.request = request_data,
                        !.prediction =
                            <<SetItem(cached.value[1], "from_cache", TRUE)>>]
               ELSE [Idle EXCEPT !.pc = "missed", !.request = request_data,
                        !.missed = TRUE]]
    /\ UNCHANGED <<model, redis_client, backendUp, store, now, last>>

\* features, model.predict, clip, level, factors, the prediction dict
worker_compute(w, fault) ==
    /\ inflight[w].pc = "missed"
    /\ LET request_data == inflight[w].request
           invoked == invoke_model(prepare_features(request_data, now))
           prediction == build_prediction(request_data,
                                          clip(invoked.scores[1]), now)
       IN  inflight' = [inflight EXCEPT ![w] =
               IF ~model.loaded \/ fault = "model"
               THEN [@ EXCEPT !.pc = "failed"]
               ELSE [@ EXCEPT !.pc = "computed", !.prediction = <<prediction>>,
                        !.computedAt = now]]
    /\ UNCHANGED <<model, redis_client, backendUp, store, now, last>>

\* cache_service.set(request_data, prediction); return prediction
worker_write(w) ==
    /\ inflight[w].pc = "computed"
    /\ LET written == cache_set(redis_client, store, backendUp,
                                inflight[w].request, inflight[w].prediction[1],
                                <<>>, now)
       IN  /\ store' = written.store
           /\ inflight' = [inflight EXCEPT ![w] =
                  [@ EXCEPT !.pc = IF written.raised THEN "failed" ELSE "done",
                            !.wrote = (redis_client = "connected" /\ backendUp
                                         /\ ~written.raised)]]
    /\ UNCHANGED <<model, redis_client, backendUp, now, last>>

----------------------------------------------------------------------------
(* PredictionService.predict_batch *)

\* the first loop: look every request up, keep the hits, remember the misses
partition(requests) ==
    LET n == Len(requests)
        lookups == AsList([i \in 1..n |->
                      cache_get(redis_client, store, backendUp, requests[i], now)])
        hits == AsList([i \in 1..n |-> Truthy(lookups[i].value)])
        uncached_indices == SelectSeq([i \in 1..n |-> i], LAMBDA i : ~hits[i])
    IN  [raised |-> \E i \in 1..n : lookups[i].raised,
         hits |-> hits,
         \* <<>> is the None placeholder
         predictions |-> AsList([i \in 1..n |->
             IF hits[i]
             THEN <<SetItem(lookups[i].value[1], "from_cache", TRUE)>>
             ELSE <<>>]),
         uncached_indices |-> uncached_indices,
         uncached_requests |-> AsList([j \in 1..Len(uncached_indices) |->
                                         requests[uncached_indices[j]]])]

\* variant: the prediction is placed at its position among the misses
place_at_miss_position(predictions, uncached_indices, i, prediction) ==
    [predictions EXCEPT ![i] = <<prediction>>]

\* predictions[original_idx] = prediction, original_idx = uncached_indices[i]
place(predictions, uncached_indices, i, prediction) ==
    [predictions EXCEPT ![uncached_indices[i]] = <<prediction>>]

\* variant: the second loop without the clip of the score
RECURSIVE build_responses_unclipped(_, _, _, _, _)
build_responses_unclipped(i, uncached_requests, risk_scores, uncached_indices, acc) ==
    IF i > Min(Len(uncached_requests), Len(risk_scores)) \/ acc.raised
    THEN acc
    ELSE LET req == uncached_requests[i]
             prediction == build_prediction(req, risk_scores[i], now)
             written == cache_set(redis_client, acc.store, backendUp, req,
                                  prediction, <<>>, now)
         IN  build_responses_unclipped(i + 1, uncached_requests, risk_scores,
                 uncached_indices,
                 [raised |-> written.raised,
                  store |-> written.store,
                  predictions |-> place(acc.predictions, uncached_indices, i,
                                        prediction)])

\* the second loop, over zip(uncached_requests, risk_scores): build, cache, place
RECURSIVE build_responses(_, _, _, _, _)
build_responses(i, uncached_requests, risk_scores, uncached_indices, acc) ==
    IF i > Min(Len(uncached_requests), Len(risk_scores)) \/ acc.raised
    THEN acc
    ELSE LET req == uncached_requests[i]
             score == clip(risk_scores[i])
             prediction == build_prediction(req, score, now)
             written == cache_set(redis_client, acc.store, backendUp, req,
                                  prediction, <<>>, now)
         IN  build_responses(i + 1, uncached_requests, risk_scores,
                 uncached_indices,
                 [raised |-> written.raised,
                  store |-> written.store,
                  predictions |-> place(acc.predictions, uncached_indices, i,
                                        prediction)])

\* pd.DataFrame([...one-row frames...]): the rows stacked in order
stack_frames(frames) == AsList([j \in 1..Len(frames) |-> frames[j][1]])

\* variant: when model.predict raises, the hits already resolved are returned
batch_result_keep_hits(part, fault) ==
    LET features_batch == stack_frames(
            [j \in 1..Len(part.uncached_requests) |->
                prepare_features(part.uncached_requests[j], now)])
        invoked == invoke_model(features_batch)
        filled == build_responses(1, part.uncached_requests,
                      AsList(invoked.scores), part.uncached_indices,
                      [raised |-> FALSE, store |-> store,
                       predictions |-> part.predictions])
    IN  IF part.raised
        THEN [outcome |-> "CacheError", output |-> <<>>, hits |-> part.hits,
              calls |-> <<>>, fault |-> "none", store |-> store]
        ELSE IF part.uncached_requests = <<>>
        THEN [outcome |-> "ok", output |-> part.predictions, hits |-> part.hits,
              calls |-> <<>>, fault |-> "none", store |-> store]
        ELSE IF fault = "frame"
        THEN [outcome |-> "ValueError", output |-> <<>>, hits |-> part.hits,
              calls |-> <<>>, fault |-> "frame", store |-> store]
        ELSE IF ~model.loaded
        THEN [outcome |-> "AttributeError", output |-> <<>>, hits |-> part.hits,
              calls |-> <<>>, fault |-> "none", store |-> store]
        ELSE IF fault = "model"
        THEN [outcome |-> "ModelError", output |-> part.predictions,
              hits |-> part.hits, calls |-> invoked.calls, fault |-> "model",
              store |-> store]
        ELSE IF filled.raised
        THEN [outcome |-> "CacheError", output |-> <<>>, hits |-> part.hits,
              calls |-> invoked.calls, fault |-> "none", store |-> filled.store]
        ELSE [outcome |-> "ok", output |-> filled.predictions,
              hits |-> part.hits, calls |-> invoked.calls, fault |-> "none",
              store |-> filled.store]

(* fault: "frame" when building the batch frame raises (the frame is built *)
(* from a list of one-row frames, which the frame constructor may reject  *)
(* with a ValueError), "model" when model.predict raises.                 *)
batch_result(part, fault) ==
    LET features_batch == stack_frames(
            [j \in 1..Len(part.uncached_requests) |->
                prepare_features(part.uncached_requests[j], now)])
        invoked == invoke_model(features_batch)
        filled == build_responses(1, part.uncached_requests,
                      AsList(invoked.scores), part.uncached_indices,
                      [raised |-> FALSE, store |-> store,
                       predictions |-> part.predictions])
    IN  IF part.raised
        THEN [outcome |-> "CacheError", output |-> <<>>, hits |-> part.hits,
              calls |-> <<>>, fault |-> "none", store |-> store]
        ELSE IF part.uncached_requests = <<>>
        THEN [outcome |-> "ok", output |-> part.predictions, hits |-> part.hits,
              calls |-> <<>>, fault |-> "none", store |-> store]
        ELSE IF fault = "frame"
        THEN [outcome |-> "ValueError", output |-> <<>>, hits |-> part.hits,
              calls |-> <<>>, fault |-> "frame", store |-> store]
        ELSE IF ~model.loaded
        THEN [outcome |-> "AttributeError", output |-> <<>>, hits |-> part.hits,
              calls |-> <<>>, fault |-> "none", store |-> store]
        ELSE IF fault = "model"
        THEN [outcome |-> "ModelError", output |-> <<>>, hits |-> part.hits,
              calls |-> invoked.calls, fault |-> "model", store |-> store]
        ELSE IF filled.raised
        THEN [outcome |-> "CacheError", output |-> <<>>, hits |-> part.hits,
              calls |-> invoked.calls, fault |-> "none", store |-> filled.store]
        ELSE [outcome |-> "ok", output |-> filled.predictions,
              hits |-> part.hits, calls |-> invoked.calls, fault |-> "none",
              store |-> filled.store]

BatchFaults == {"none", "frame", "model"}

predict_batch(requests) ==
    \E part \in {partition(requests)} :
    \E fault \in IF part.uncached_requests = <<>> THEN {"none"} ELSE BatchFaults :
    \E res \in {batch_result(part, fault)} :
        /\ store' = res.store
        /\ last' = Call("predict_batch", requests, <<>>, <<>>, res)
        /\ UNCHANGED <<model, redis_client, backendUp, now, inflight>>

----------------------------------------------------------------------------
(* CacheService.clear_all, CacheService.get_stats *)

\* variant: the whole database is emptied (FLUSHDB)
clear_all_try_flush(st, up) ==
    IF ~up THEN [raised |-> TRUE, store |-> st, cleared |-> 0]
    ELSE [raised |-> FALSE, store |-> <<>>, cleared |-> Cardinality(DOMAIN st)]

(* the body of the try block of clear_all: keys("prediction:*"), then     *)
(* delete of those keys if there are any; cleared is the number found    *)
clear_all_try(st, up) ==
    IF ~up THEN [raised |-> TRUE, store |-> st, cleared |-> 0]
    ELSE [raised |-> FALSE,
          store |-> [k \in {x \in DOMAIN st : ~IsPredictionKey(x)} |-> st[k]],
          cleared |-> Cardinality({x \in DOMAIN st : IsPredictionKey(x)})]

\* output: the number of entries the call logs as cleared, if it logs one
clear_all ==
    LET r == clear_all_try(store, backendUp)
        done == redis_client # "None" /\ ~r.raised
    IN  /\ store' = IF done THEN r.store ELSE store
        /\ last' = Call("clear_all", <<>>, <<>>, <<>>,
                        [outcome |-> "ok",
                         output |-> IF done /\ r.cleared > 0
                                    THEN <<r.cleared>> ELSE <<>>,
                         hits |-> <<>>, calls |-> <<>>, fault |-> "none"])
        /\ UNCHANGED <<model, redis_client, backendUp, now, inflight>>

\* get_stats: dbsize() counts every key of the database
stats_result ==
    IF redis_client = "None" \/ ~backendUp
    THEN [connected |-> FALSE]
    ELSE [connected |-> TRUE, total_keys |-> Cardinality(DOMAIN store)]

get_stats ==
    /\ last' = Call("get_stats", <<>>, <<>>, <<>>,
                    [outcome |-> "ok", output |-> <<stats_result>>,
                     hits |-> <<>>, calls |-> <<>>, fault |-> "none"])
    /\ UNCHANGED <<model, redis_client, backendUp, store, now, inflight>>

----------------------------------------------------------------------------
(* CacheService.get and CacheService.set called directly *)

cache_get_call(request_data) ==
    LET r == cache_get(redis_client, store, backendUp, request_data, now)
    IN  /\ last' = Call("get", <<request_data>>, <<>>, <<>>,
                        [outcome |-> IF r.raised THEN "CacheError" ELSE "ok",
                         output |-> r.value, hits |-> <<r.value # NoValue>>,
                         calls |-> <<>>, fault |-> "none"])
        /\ UNCHANGED <<model, redis_client, backendUp, store, now, inflight>>

cache_set_call(request_data, prediction, ttl) ==
    LET r == cache_set(redis_client, store, backendUp, request_data,
                       prediction, ttl, now)
    IN  /\ store' = r.store
        /\ last' = Call("set", <<request_data>>, ttl, <<prediction>>,
                        [outcome |-> IF r.raised THEN "CacheError" ELSE "ok",
                         output |-> <<>>, hits |-> <<>>,
                         calls |-> <<>>, fault |-> "none"])
        /\ UNCHANGED <<model, redis_client, backendUp, now, inflight>>

\* predictions and ttl arguments handed to a direct set
PutResults ==
    {build_prediction(ObsA, 5999, 0), build_prediction(ObsB, 10000, 0)}

TtlArgs == {<<>>, <<0>>, <<TickStep>>, <<0 - 1>>}

----------------------------------------------------------------------------
(* Environment *)

\* time passes; Redis drops the entries whose expiry has been reached
Tick ==
    /\ now + TickStep <= MaxTicks * TickStep
    /\ now' = now + TickStep
    /\ store' = [k \in {x \in DOMAIN store : store[x].expireAt > now + TickStep}
                    |-> store[k]]
    /\ UNCHANGED <<model, redis_client, backendUp, last, inflight>>

BackendDown ==
    /\ backendUp
    /\ backendUp' = FALSE
    /\ UNCHANGED <<model, redis_client, store, now, last, inflight>>

BackendRecover ==
    /\ ~backendUp
    /\ backendUp' = TRUE
    /\ UNCHANGED <<model, redis_client, store, now, last, inflight>>

(* The Redis database is shared: another application writes a key of its  *)
(* own, outside the "prediction:" prefix, that does not expire while the  *)
(* model runs.                                                            *)
ForeignKey == <<"session:", "other">>

ForeignEntry ==
    [value |-> "other", expireAt |-> (MaxTicks + 1) * TickStep + CACHE_TTL]

ForeignWrite ==
    /\ backendUp
    /\ ForeignKey \notin DOMAIN store
    /\ store' = [k \in (DOMAIN store) \cup {ForeignKey} |->
                    IF k = ForeignKey THEN ForeignEntry ELSE store[k]]
    /\ UNCHANGED <<model, redis_client, backendUp, now, last, inflight>>

(* The module-level constructors, cache_service = CacheService() and      *)
(* prediction_service = PredictionService().  The client is kept only if  *)
(* the ping succeeds.  load_model takes whatever the model file holds     *)
(* under 'model' (a file holding None leaves the service without a model; *)
(* a missing file ends the process, which then serves nothing).           *)
Construct(loaded) ==
    /\ redis_client' = IF backendUp THEN "connected" ELSE "None"
    /\ model' = [loaded |-> loaded]

\* the process is started again; the Redis keyspace outlives it, the
\* requests in flight do not
Restart ==
    /\ \E loaded \in BOOLEAN : Construct(loaded)
    /\ last' = [NoCall EXCEPT !.op = "restart", !.time = now]
    /\ inflight' = NoneInFlight
    /\ UNCHANGED <<backendUp, store, now>>

----------------------------------------------------------------------------
Init ==
    /\ backendUp \in BOOLEAN
    /\ redis_client = IF backendUp THEN "connected" ELSE "None"
    /\ model \in {[loaded |-> TRUE], [loaded |-> FALSE]}
    /\ store = <<>>
    /\ now = 0
    /\ last = NoCall
    /\ inflight = NoneInFlight

\* the requests batches are drawn from
BatchObservations == {ObsA, ObsB}

\* the batch repeats one request
Repeating(b) == \A i \in 2..Len(b) : b[i] = b[1]

\* the batch alternates between its requests
Alternating(b) == \A i \in 2..Len(b) : b[i] # b[i - 1]

\* the length up to which every batch is handed in
AnyShapeLen == 3

(* The batches handed in: every batch of up to AnyShapeLen requests, and   *)
(* the longer ones, up to MaxBatch, that repeat one request or alternate.  *)
Batches ==
    {b \in UNION {[1..n -> BatchObservations] : n \in 0..MaxBatch} :
        Len(b) <= AnyShapeLen \/ Repeating(b) \/ Alternating(b)}

PredictSingle == \E o \in Observations, f \in {"none", "model"} : predict_single(o, f)

\* max_length of BatchPredictionRequest.predictions
MAX_LENGTH == 100

\* a request body with one observation more than the schema allows
Oversized == [i \in 1..(MAX_LENGTH + 1) |-> ObsA]

\* variant: the list is validated without a length limit
batch_valid_unbounded(predictions) == TRUE

\* BatchPredictionRequest(**data): the list may hold at most max_length items
batch_valid(predictions) == Len(predictions) <= MAX_LENGTH

(* The route predict_batch: the body is validated first; a body that      *)
(* fails validation raises ValidationError before the service is called.  *)
route_predict_batch(predictions) ==
    IF batch_valid(predictions)
    THEN predict_batch(predictions)
    ELSE /\ last' = Call("rejected", predictions, <<>>, <<>>,
                         [outcome |-> "ValidationError", output |-> <<>>,
                          hits |-> <<>>, calls |-> <<>>, fault |-> "none"])
         /\ UNCHANGED <<model, redis_client, backendUp, store, now, inflight>>

PredictBatch == \E b \in Batches \cup {Oversized} : route_predict_batch(b)

CacheGet == \E o \in Observations : cache_get_call(o)

CacheSet ==
    \E o \in Observations, r \in PutResults, t \in TtlArgs : cache_set_call(o, r, t)

\* the serving path: the gateway's operations over the cache
Next ==
    \/ PredictSingle
    \/ PredictBatch
    \/ clear_all
    \/ get_stats
    \/ Tick
    \/ BackendDown
    \/ BackendRecover
    \/ Restart

Spec == Init /\ [][Next]_vars

\* the cache store driven directly, with the gateway's single read path
NextCache ==
    \/ CacheGet
    \/ CacheSet
    \/ PredictSingle
    \/ clear_all
    \/ get_stats
    \/ Tick
    \/ BackendDown
    \/ BackendRecover
    \/ ForeignWrite

SpecCache == Init /\ [][NextCache]_vars

\* the serving path with single predictions only
NextSingle ==
    \/ PredictSingle
    \/ clear_all
    \/ get_stats
    \/ Tick
    \/ BackendDown
    \/ BackendRecover

SpecSingle == Init /\ [][NextSingle]_vars

\* a direct set with the default time to live
CachePut == \E o \in BatchObservations, r \in PutResults : cache_set_call(o, r, <<>>)

(* the cache service over the lifetimes of successive processes: the      *)
(* entries an earlier process wrote are still in Redis when the next one  *)
(* is constructed                                                         *)
NextProcess ==
    \/ CacheGet
    \/ CachePut
    \/ PredictSingle
    \/ clear_all
    \/ get_stats
    \/ Tick
    \/ BackendDown
    \/ BackendRecover
    \/ Restart

SpecProcess == Init /\ [][NextProcess]_vars

WorkerLookup == \E w \in Workers, o \in Observations : worker_lookup(w, o)

WorkerCompute == \E w \in Workers, f \in {"none", "model"} : worker_compute(w, f)

WorkerWrite == \E w \in Workers : worker_write(w)

\* single predictions served by concurrent workers
NextConcurrent ==
    \/ WorkerLookup
    \/ WorkerCompute
    \/ WorkerWrite
    \/ Tick
    \/ BackendDown
    \/ BackendRecover

SpecConcurrent == Init /\ [][NextConcurrent]_vars

----------------------------------------------------------------------------
(* The pure functions, applied to inputs drawn from bounded sets *)

\* scores of [0,1] at four decimals: every hundredth and its two neighbours
Scores == {s \in 0..10000 : s % 100 \in {0, 1, 99}}

\* _get_risk_level(s)
categorize(s) ==
    /\ last' = Call("categorize", <<s>>, <<>>, <<>>,
                    [outcome |-> "ok", output |-> <<get_risk_level(s)>>,
                     hits |-> <<>>, calls |-> <<>>, fault |-> "none"])
    /\ UNCHANGED <<model, redis_client, backendUp, store, now, inflight>>

Categorize == \E s \in Scores : categorize(s)

\* variant: the ETL thresholds compared with <=
create_risk_label_inclusive(risk_score) ==
    IF risk_score <= 3000 THEN "LOW"
    ELSE IF risk_score <= 6000 THEN "MODERATE"
    ELSE IF risk_score <= 8000 THEN "HIGH"
    ELSE "EXTREME"

\* FeatureEngineer.create_risk_label, score in ten-thousandths
create_risk_label(risk_score) ==
    IF Less(risk_score, 3000) THEN "LOW"
    ELSE IF Less(risk_score, 6000) THEN "MODERATE"
    ELSE IF Less(risk_score, 8000) THEN "HIGH"
    ELSE "EXTREME"

\* the scores handed to the ETL categorizer: every tenth of [0,1] and its
\* two neighbours, one score on either side of the interval, and NaN
LabelScores == {s \in Scores : s % 1000 \in {0, 1, 999}} \cup {0 - 1, 10001, NaN}

\* create_risk_label(s)
label(s) ==
    /\ last' = Call("create_risk_label", <<s>>, <<>>, <<>>,
                    [outcome |-> "ok", output |-> <<create_risk_label(s)>>,
                     hits |-> <<>>, calls |-> <<>>, fault |-> "none"])
    /\ UNCHANGED <<model, redis_client, backendUp, store, now, inflight>>

Label == \E s \in LabelScores : label(s)

\* the request with one field changed
Vary(o, k) == [o EXCEPT !.fields[k] = @ + 1]

Rotated(s) == [i \in 1..Len(s) |-> s[(i % Len(s)) + 1]]

FieldOrders == {DeclaredOrder, Reversed(DeclaredOrder), Rotated(DeclaredOrder)}

\* requests differing in one field, in no field or in several, in three
\* insertion orders
FingerprintInputs ==
    {[o EXCEPT !.order = ord] :
        o \in {ObsA, ObsB} \cup {Vary(ObsA, DeclaredOrder[i]) : i \in 1..Len(DeclaredOrder)},
        ord \in FieldOrders}

\* _generate_key applied to two requests
fingerprint(o1, o2) ==
    /\ last' = Call("generate_key", <<o1, o2>>, <<>>, <<>>,
                    [outcome |-> "ok",
                     output |-> <<generate_key(o1), generate_key(o2)>>,
                     hits |-> <<>>, calls |-> <<>>, fault |-> "none"])
    /\ UNCHANGED <<model, redis_client, backendUp, store, now, inflight>>

Fingerprint == \E o1 \in FingerprintInputs, o2 \in FingerprintInputs : fingerprint(o1, o2)

NextPure ==
    \/ Categorize
    \/ Label
    \/ Fingerprint

SpecPure == Init /\ [][NextPure]_vars

TypeOK ==
    /\ model.loaded \in BOOLEAN
    /\ redis_client \in {"connected", "None"}
    /\ backendUp \in BOOLEAN
    /\ now \in 0..(MaxTicks * TickStep)
    /\ \A k \in DOMAIN store : store[k].expireAt > now

----------------------------------------------------------------------------
(* Vocabulary of the properties *)

\* a step that is a call of op (every call leaves a new record in last)
Called(op) == last'.op = op /\ last' # last

(* No time has passed since the last call.  Only Tick changes the store   *)
(* without leaving a record in last, so in such a state the store is the  *)
(* store the last call left behind.                                       *)
JustReturned == last.time = now

\* what a miss on request o at time t computes
Fresh(o, t) == build_prediction(o, clip(raw_score(prepare_features(o, t)[1])), t)

\* the requests of a call that missed, in input order
Misses(call) ==
    LET idx == SelectSeq([i \in 1..Len(call.input) |-> i],
                         LAMBDA i : ~call.hits[i])
    IN  [j \in 1..Len(idx) |-> call.input[idx[j]]]

----------------------------------------------------------------------------
(* C1.  predict_batch is length- and order-preserving.  Every              *)
(* predict_batch call that returns, from any cache state and for any mix  *)
(* of hits and misses, returns as many results as it was given requests,  *)
(* and result i belongs to request i: it carries request i's latitude and *)
(* longitude; where the lookup of request i was a hit it is the decoded   *)
(* payload of the entry stored under request i's key with from_cache =    *)
(* TRUE, and where it was a miss it is the prediction computed in this    *)
(* call from request i, with from_cache = FALSE.                          *)

BatchResultAt(i) ==
    LET req == last.input[i]
        out == last.output[i]
    IN  /\ Len(out) = 1
        /\ out[1].latitude = GetItem(req, "latitude")
        /\ out[1].longitude = GetItem(req, "longitude")
        /\ IF last.hits[i]
           THEN /\ out[1].from_cache = TRUE
                /\ generate_key(req) \in DOMAIN store
                /\ out[1] = SetItem(json_loads(store[generate_key(req)].value),
                                    "from_cache", TRUE)
           ELSE /\ out[1].from_cache = FALSE
                /\ out[1] = Fresh(req, last.time)

----------------------------------------------------------------------------
(* C2.  One predict_batch call invokes the model at most once, never once *)
(* per item.  It invokes it zero times when every request is a hit or the *)
(* batch is empty.  When at least one request is a miss, the model is     *)
(* loaded and the batch frame is built, it invokes it exactly once, with  *)
(* a frame holding exactly the misses' feature rows in input order.       *)

MissFrame(call) ==
    [j \in 1..Len(Misses(call)) |->
        prepare_features(Misses(call)[j], call.time)[1]]

----------------------------------------------------------------------------
(* C3.  Idempotent repeated reads.  With a working cache, when a          *)
(* predict_single call that computed its result is followed, before the   *)
(* ttl has run out and with no other call in between, by a predict_single *)
(* call for the same field values, the model is invoked once in the two   *)
(* calls together, and the second call returns from_cache = TRUE and      *)
(* otherwise exactly what the first returned, timestamp included.         *)

SameFields(o1, o2) == o1.fields = o2.fields

FirstRead ==
    /\ last.op = "predict_single"
    /\ last.outcome = "ok"
    /\ last.hits = <<FALSE>>
    /\ last.cacheOk

SecondRead ==
    /\ Called("predict_single")
    /\ SameFields(last'.input[1], last.input[1])
    /\ last'.cacheOk
    /\ last'.time < last.time + CACHE_TTL

C3_RepeatedReadIsCached ==
    [][(FirstRead /\ SecondRead) =>
          /\ last'.outcome = "ok"
          /\ last'.hits = <<TRUE>>
          /\ Len(last.calls) + Len(last'.calls) = 1
          /\ last.output[1].from_cache = FALSE
          /\ last'.output[1].from_cache = TRUE
          /\ last'.output = <<[last.output[1] EXCEPT !.from_cache = TRUE]>>]_vars

(* a later read inside the ttl window, for the same values supplied in    *)
(* another field order, served from the cache (under SpecSingle only      *)
(* predict_single writes entries)                                         *)
C3_Witness ==
    /\ last.op = "predict_single"
    /\ last.outcome = "ok"
    /\ last.hits = <<TRUE>>
    /\ last.calls = <<>>
    /\ last.input[1] = ObsA2
    /\ last.output[1].timestamp < last.time
    /\ last.time < last.output[1].timestamp + CACHE_TTL

----------------------------------------------------------------------------
(* C4.  Cache correctness.  In every reachable state of the serving path  *)
(* (any sequence of predict_single, predict_batch, clear_all, expiries,   *)
(* outages and restarts) the entry stored under the key of a request is a *)
(* prediction computed from exactly that request's field values, and a    *)
(* result returned as a hit for a request was computed from exactly that  *)
(* request's field values.                                                *)

Times == {i * TickStep : i \in 0..MaxTicks}

\* result i of a call (predict_batch keeps each slot as <<>> or <<result>>)
ResultAt(call, i) ==
    IF call.op = "predict_batch" THEN call.output[i][1] ELSE call.output[i]

ComputedFrom(o, result) ==
    \E t \in Times : [result EXCEPT !.from_cache = FALSE] = Fresh(o, t)

C4_CacheHoldsOwnResults ==
    /\ \A o \in Observations :
          generate_key(o) \in DOMAIN store =>
              ComputedFrom(o, json_loads(store[generate_key(o)].value))
    /\ (last.op \in {"predict_single", "predict_batch"} /\ last.outcome = "ok") =>
          \A i \in 1..Len(last.input) :
              last.hits[i] => ComputedFrom(last.input[i], ResultAt(last, i))

\* both keys hold an entry and the last call was served one of them
C4_Witness ==
    /\ generate_key(ObsA) \in DOMAIN store
    /\ generate_key(ObsB) \in DOMAIN store
    /\ last.op = "predict_single"
    /\ last.outcome = "ok"
    /\ last.hits = <<TRUE>>
    /\ last.input = <<ObsB>>

----------------------------------------------------------------------------
(* C5.  Cache round-trip.  On a working cache, set(O, R) with the default *)
(* or a positive ttl, followed at once by a read of O through the         *)
(* gateway's lookup (CacheService.get and the from_cache assignment of    *)
(* predict_single), returns R in every field except from_cache, which     *)
(* was FALSE in R and is TRUE in what is returned.                        *)

PutStored ==
    /\ last.op = "set"
    /\ last.cacheOk
    /\ (last.ttl = <<>> \/ last.ttl[1] > 0)

ReadBackAtOnce ==
    /\ Called("predict_single")
    /\ SameFields(last'.input[1], last.input[1])
    /\ last'.cacheOk
    /\ last'.time = last.time

----------------------------------------------------------------------------
(* C6.  TTL expiry.  An entry stored by set with ttl = 0 is absent on the *)
(* next get for the same request.  The code replaces a ttl of 0 by the    *)
(* configured default, so the entry is served for CACHE_TTL seconds and   *)
(* this is violated.                                                      *)

C6_ZeroTtlIsAbsent ==
    [][(last.op = "set" /\ last.ttl = <<0>>
          /\ Called("get") /\ SameFields(last'.input[1], last.input[1]))
       => last'.output = NoValue]_vars

----------------------------------------------------------------------------
(* C7.  set stores the entry with expiry at now + ttl (CACHE_TTL when no  *)
(* ttl is given), replacing any earlier entry for the key, and get        *)
(* returns the most recently stored result for the key exactly while      *)
(* that entry is present and not expired.  Stated for ttl arguments that  *)
(* are not negative.  Violated for ttl = 0 (see C6): the code stores the  *)
(* entry with expiry at now + CACHE_TTL.                                  *)

ClaimedTtl(ttl) == IF ttl = <<>> THEN CACHE_TTL ELSE ttl[1]

C7_SetStoresWithExpiry ==
    [][(Called("set") /\ last'.cacheOk
          /\ (last'.ttl = <<>> \/ last'.ttl[1] >= 0))
       => LET key == generate_key(last'.input[1])
              expiry == now + ClaimedTtl(last'.ttl)
          IN  IF expiry > now
              THEN /\ key \in DOMAIN store'
                   /\ store'[key] = [value |-> json_dumps(last'.arg[1]),
                                     expireAt |-> expiry]
              ELSE key \notin DOMAIN store']_vars

----------------------------------------------------------------------------
(* C9.  A backing-store error raised during get, set or get_stats on a    *)
(* connected store (the server is down, or it rejects the expire time)    *)
(* never reaches the caller: get reports absent, set returns normally and *)
(* leaves the stored entries unchanged, get_stats reports connected =     *)
(* FALSE.                                                                 *)

ServerFails == redis_client = "connected" /\ ~backendUp

ExpireRejected(ttl) == ttl # <<>> /\ ttl[1] < 0

C9_BackendErrorsAbsorbed ==
    [][/\ (Called("get") /\ ServerFails) =>
              (last'.outcome = "ok" /\ last'.output = NoValue)
       /\ (Called("set") /\ redis_client = "connected"
             /\ (~backendUp \/ ExpireRejected(last'.ttl))) =>
              (last'.outcome = "ok" /\ store' = store)
       /\ (Called("get_stats") /\ ServerFails) =>
              (last'.outcome = "ok" /\ last'.output[1].connected = FALSE)]_vars

\* a set that failed on a connected store holding an entry for the same key
C9_Witness ==
    /\ last.op = "set"
    /\ last.outcome = "ok"
    /\ ~last.cacheOk
    /\ JustReturned
    /\ ServerFails
    /\ generate_key(last.input[1]) \in DOMAIN store
    /\ store[generate_key(last.input[1])].value # json_dumps(last.arg[1])

----------------------------------------------------------------------------
(* C8.  Cache-store failure transparency.  With the cache unavailable     *)
(* (no client since construction, or a server that fails every call), a   *)
(* predict_single call on a loaded model never fails because of the       *)
(* cache: unless model.predict itself raises, it returns the prediction   *)
(* computed in this call, with from_cache = FALSE, after invoking the     *)
(* model once; and get_stats reports connected = FALSE.                   *)

C8_CacheFailureTransparent ==
    /\ (last.op = "predict_single" /\ ~last.cacheOk /\ last.loaded) =>
          /\ last.outcome \in {"ok", "ModelError"}
          /\ last.outcome = "ModelError" <=> last.fault = "model"
          /\ last.outcome = "ok" =>
                /\ last.output = <<Fresh(last.input[1], last.time)>>
                /\ last.output[1].from_cache = FALSE
                /\ last.hits = <<FALSE>>
                /\ Len(last.calls) = 1
    /\ (last.op = "get_stats" /\ ~last.cacheOk) =>
          last.output[1].connected = FALSE

(* a prediction returned while the client exists and the server is down,  *)
(* for a request the keyspace holds an entry for                          *)
C8_Witness ==
    /\ last.op = "predict_single"
    /\ last.outcome = "ok"
    /\ ~last.cacheOk
    /\ JustReturned
    /\ redis_client = "connected"
    /\ ~backendUp
    /\ generate_key(last.input[1]) \in DOMAIN store

----------------------------------------------------------------------------
(* C10.  Model unavailable.  If the model is not loaded, every            *)
(* predict_single call and every predict_batch call on at least one       *)
(* request fails, returning no prediction, whatever the cache holds.      *)
(* The code serves cache hits without looking at the model, so this is    *)
(* violated.                                                              *)

C10_NoModelNoResult ==
    (last.op \in {"predict_single", "predict_batch"}
        /\ ~last.loaded /\ Len(last.input) >= 1) =>
        /\ last.outcome # "ok"
        /\ last.output = <<>>

----------------------------------------------------------------------------
(* C11.  A predict request that fails because the model is not loaded is  *)
(* answered with a failure kind (status and error code) different from    *)
(* the kind answered when model.predict itself raises.  The routes answer *)
(* every exception of the service with the same status and error code,    *)
(* so this is violated.                                                   *)

FailureKind(response) == <<response.status, response.error>>

\* the kind answered by the route of op when the model call raises
InferenceErrorKind(op) == FailureKind(route_response(op, "ModelError"))

C11_ModelUnavailableDistinct ==
    (last.op \in {"predict_single", "predict_batch"}
        /\ ~last.loaded /\ last.outcome = "AttributeError") =>
        FailureKind(last.response) # InferenceErrorKind(last.op)

----------------------------------------------------------------------------
(* C12.  categorize uses fixed half-open thresholds on [0,1]: LOW iff     *)
(* 0 <= s < 0.3, MODERATE iff 0.3 <= s < 0.6, HIGH iff 0.6 <= s < 0.8,    *)
(* EXTREME iff 0.8 <= s <= 1.0; in particular 0.2999 is LOW, 0.3 is       *)
(* MODERATE, 0.5999 is MODERATE, 0.6 is HIGH, 0.7999 is HIGH, 0.8 and 1.0 *)
(* are EXTREME.                                                           *)

InBucket(s, lo, hi) == lo <= s /\ s < hi

C12_CategorizeThresholds ==
    last.op = "categorize" =>
        LET s == last.input[1]
            level == last.output[1]
        IN  /\ level \in {"LOW", "MODERATE", "HIGH", "EXTREME"}
            /\ level = "LOW" <=> InBucket(s, 0, 3000)
            /\ level = "MODERATE" <=> InBucket(s, 3000, 6000)
            /\ level = "HIGH" <=> InBucket(s, 6000, 8000)
            /\ level = "EXTREME" <=> (8000 <= s /\ s <= 10000)
            /\ s = 2999 => level = "LOW"
            /\ s = 5999 => level = "MODERATE"
            /\ s = 7999 => level = "HIGH"
            /\ s = 10000 => level = "EXTREME"

\* the score on the lower edge of a bucket
C12_Witness ==
    /\ last.op = "categorize"
    /\ last.input = <<3000>>
    /\ last.output = <<"MODERATE">>

----------------------------------------------------------------------------
(* C17.  Fingerprint stability.  Two requests get the same key exactly    *)
(* when they hold the same field values: the order in which the fields    *)
(* were supplied does not matter, and requests that differ in at least    *)
(* one field value get different keys.                                    *)

C17_FingerprintStable ==
    last.op = "generate_key" =>
        (SameFields(last.input[1], last.input[2])
            <=> last.output[1] = last.output[2])

\* the same values in two orders, one key
C17_Witness ==
    /\ last.op = "generate_key"
    /\ SameFields(last.input[1], last.input[2])
    /\ last.input[1].order # last.input[2].order
    /\ last.output[1] = last.output[2]

----------------------------------------------------------------------------
(* Freshly computed results: the results of the last predict_single or    *)
(* predict_batch call at the positions that were misses.                  *)

Returned ==
    last.op \in {"predict_single", "predict_batch"} /\ last.outcome = "ok"

FreshPositions == {i \in 1..Len(last.input) : ~last.hits[i]}

\* the raw score the model gave for request i of the last call
RawAt(i) == raw_score(prepare_features(last.input[i], last.time)[1])

\* a rounded score (thousandths) lies in [0,1]
InUnitInterval(x) == x # NaN /\ 0 <= x /\ x <= 1000

----------------------------------------------------------------------------
(* C13.  Score clamping.  Whatever raw score the model gives, the         *)
(* risk_score of a freshly computed result (single or batch) lies in      *)
(* [0,1]; a raw score above 1 gives risk_score 1.0 with level EXTREME, a  *)
(* raw score below 0 gives risk_score 0.0 with level LOW.  np.clip lets a *)
(* NaN score through, so this is violated.                                *)

C13_ScoreClamped ==
    Returned =>
        \A i \in FreshPositions :
            LET r == ResultAt(last, i)
            IN  /\ InUnitInterval(r.risk_score)
                /\ Less(10000, RawAt(i)) =>
                       (r.risk_score = 1000 /\ r.risk_level = "EXTREME")
                /\ Less(RawAt(i), 0) =>
                       (r.risk_score = 0 /\ r.risk_level = "LOW")

----------------------------------------------------------------------------
(* C14.  On a miss the score is clamped, rounded to three decimals and    *)
(* then categorized: the risk_level of every freshly computed result      *)
(* (single or batch) is categorize applied to the returned, rounded       *)
(* risk_score.  The code categorizes the score before rounding it, so     *)
(* this is violated (0.2999 is returned as 0.3 with level LOW).           *)

\* a rounded score (thousandths) as a score in ten-thousandths
Unrounded(x) == IF x = NaN THEN NaN ELSE x * 10

C14_LevelOfRoundedScore ==
    Returned =>
        \A i \in FreshPositions :
            ResultAt(last, i).risk_level
                = get_risk_level(Unrounded(ResultAt(last, i).risk_score))

----------------------------------------------------------------------------
(* C15.  Batch/single parity.  For a request O that is not served from    *)
(* the cache, predict_batch([O]) that returns gives, at position 1, the   *)
(* risk_score, risk_level and contributing_factors that predict_single(O) *)
(* gives from the same state at the same time.                            *)

Semantic(r) == <<r.risk_score, r.risk_level, r.contributing_factors>>

----------------------------------------------------------------------------
(* C16.  clear_all on a working store removes every key under the         *)
(* "prediction:" prefix, so that a get that follows is absent for every   *)
(* request, and leaves every key outside the prefix as it was.            *)

OwnKeys(st) == {k \in DOMAIN st : IsPredictionKey(k)}

C16_ClearAllScoped ==
    [][/\ (Called("clear_all") /\ last'.cacheOk) =>
              /\ OwnKeys(store') = {}
              /\ \A k \in (DOMAIN store) \ OwnKeys(store) :
                     k \in DOMAIN store' /\ store'[k] = store[k]
              /\ \A o \in Observations :
                     cache_get(redis_client', store', backendUp', o, now').value
                         = NoValue
       /\ (last.op = "clear_all" /\ last.cacheOk /\ Called("get")) =>
              last'.output = NoValue]_vars

\* two entries were cleared and the other application's key is still there
C16_Witness ==
    /\ last.op = "clear_all"
    /\ last.cacheOk
    /\ last.output = <<2>>
    /\ JustReturned
    /\ OwnKeys(store) = {}
    /\ ForeignKey \in DOMAIN store

----------------------------------------------------------------------------
(* C18.  The payload stored in a cache entry is the serialized result     *)
(* without the from_cache flag; the flag appears only in the results      *)
(* handed to callers, TRUE on a result read from the cache and FALSE on   *)
(* one just assembled.  The code serializes the assembled result with its *)
(* from_cache member, so the first part is violated.                      *)

C18_PayloadWithoutFlag ==
    /\ \A k \in OwnKeys(store) :
           "from_cache" \notin DOMAIN json_loads(store[k].value)
    /\ Returned =>
           \A i \in 1..Len(last.input) :
               ResultAt(last, i).from_cache = last.hits[i]

----------------------------------------------------------------------------
(* C19.  A batch request with more than 100 observations is rejected by   *)
(* request validation with status 400, and then predict_batch is not      *)
(* called, the model is not invoked, and the cache is neither read nor    *)
(* written.                                                               *)

C19_OversizedBatchRejected ==
    [][(last' # last /\ Len(last'.input) > MAX_LENGTH) =>
          /\ last'.op = "rejected"
          /\ last'.outcome = "ValidationError"
          /\ last'.response = [status |-> 400, error |-> "Validation error"]
          /\ last'.output = <<>>
          /\ last'.calls = <<>>
          /\ last'.hits = <<>>
          /\ store' = store]_vars

\* a rejected body of 101 observations, on a loaded model and a filled cache
C19_Witness ==
    /\ last.op = "rejected"
    /\ Len(last.input) = MAX_LENGTH + 1
    /\ last.response.status = 400
    /\ last.loaded
    /\ last.cacheOk
    /\ JustReturned
    /\ generate_key(last.input[1]) \in DOMAIN store

----------------------------------------------------------------------------
(* C20.  Concurrent misses.  Worker w writes back while the entry that    *)
(* another worker v wrote for the same fingerprint is still in the store, *)
(* both having missed: the two calls overlapped.  As claimed: the entry   *)
(* left is the one written last, no other key is affected, and the two    *)
(* written results agree in risk_score, risk_level and                    *)
(* contributing_factors.  The features are built from the clock of each   *)
(* call, so two overlapping calls on either side of a full hour can get   *)
(* different scores and the last part is violated.                        *)

\* month, hour and day of year: what _prepare_features reads from the clock
ReferenceTime(t) == <<Month(t), Hour(t), DayOfYear(t)>>

SecondWrite(w, v) ==
    /\ w # v
    /\ inflight[w].pc = "computed"
    /\ inflight'[w].pc = "done"
    /\ inflight'[w].wrote
    /\ inflight[v].pc = "done"
    /\ inflight[v].missed
    /\ inflight[v].wrote
    /\ SameFields(inflight[w].request, inflight[v].request)
    /\ generate_key(inflight[v].request) \in DOMAIN store
    /\ store[generate_key(inflight[v].request)].value
           = json_dumps(inflight[v].prediction[1])

LastWriteWins(w) ==
    LET key == generate_key(inflight[w].request)
    IN  /\ key \in DOMAIN store'
        /\ store'[key].value = json_dumps(inflight[w].prediction[1])
        /\ (DOMAIN store') \ {key} = (DOMAIN store) \ {key}
        /\ \A k \in (DOMAIN store) \ {key} : store'[k] = store[k]

C20_ConcurrentMissesIdentical ==
    [][\A w \in Workers, v \in Workers :
          SecondWrite(w, v) =>
              /\ LastWriteWins(w)
              /\ Semantic(inflight[w].prediction[1])
                     = Semantic(inflight[v].prediction[1])]_vars

(* C20 as amended: the entry left is the one written last, no other key   *)
(* is affected, the two results have the same contributing_factors, and   *)
(* they have the same risk_score and risk_level when both calls built     *)
(* their features in the same month, hour and day of year.                *)
C20_ConcurrentMissesLastWriteWins ==
    [][\A w \in Workers, v \in Workers :
          SecondWrite(w, v) =>
              /\ LastWriteWins(w)
              /\ inflight[w].prediction[1].contributing_factors
                     = inflight[v].prediction[1].contributing_factors
              /\ ReferenceTime(inflight[w].computedAt)
                       = ReferenceTime(inflight[v].computedAt)
                     => Semantic(inflight[w].prediction[1])
                           = Semantic(inflight[v].prediction[1])]_vars

(* two workers missed on the same fingerprint and both wrote back; the    *)
(* entry is the later one's, which differs from the earlier one's         *)
C20_Witness ==
    \E w \in Workers, v \in Workers :
        /\ w # v
        /\ inflight[w].pc = "done" /\ inflight[w].missed /\ inflight[w].wrote
        /\ inflight[v].pc = "done" /\ inflight[v].missed /\ inflight[v].wrote
        /\ SameFields(inflight[w].request, inflight[v].request)
        /\ inflight[w].request # inflight[v].request
        /\ inflight[v].computedAt < inflight[w].computedAt
        /\ generate_key(inflight[w].request) \in DOMAIN store
        /\ store[generate_key(inflight[w].request)].value
               = json_dumps(inflight[w].prediction[1])

----------------------------------------------------------------------------
(* C21.  No retry.  One predict_single or predict_batch call invokes the  *)
(* model at most once.  When building the batch frame or the model        *)
(* invocation raises, the call returns no result and the route answers    *)
(* with a 5xx status: not the 400 of a validation failure and not a 200.  *)

ServerError(response) == 500 <= response.status /\ response.status <= 599

C21_ModelErrorNotRetried ==
    last.op \in {"predict_single", "predict_batch"} =>
        /\ Len(last.calls) <= 1
        /\ last.fault = "model" => Len(last.calls) = 1
        /\ last.fault \in {"model", "frame"} =>
              /\ last.outcome \notin {"ok", "ValidationError"}
              /\ last.output = <<>>
              /\ ServerError(last.response)
              /\ last.response.status \notin {200, 400}
              /\ last.response.error # "Validation error"

(* a batch whose model invocation raised after one of its requests was    *)
(* found in the cache: one invocation, a 500 answer                       *)
C21_Witness ==
    /\ last.op = "predict_batch"
    /\ last.fault = "model"
    /\ Len(last.calls) = 1
    /\ \E i \in 1..Len(last.hits) : last.hits[i]
    /\ last.response.status = 500

----------------------------------------------------------------------------
(* C22.  Write-through.  With a working cache, when predict_single or     *)
(* predict_batch returns, every result it computed in this call is stored *)
(* under the key of its request, with the default time to live: the entry *)
(* decodes to the result returned.                                        *)

StoredAsReturned(i) ==
    LET key == generate_key(last.input[i])
    IN  /\ key \in DOMAIN store
        /\ json_loads(store[key].value) = ResultAt(last, i)
        /\ store[key].expireAt = last.time + CACHE_TTL

C22_WriteThrough ==
    (Returned /\ last.cacheOk /\ JustReturned) =>
        \A i \in FreshPositions : StoredAsReturned(i)

\* a returned batch that computed results for two different requests
C22_Witness ==
    /\ last.op = "predict_batch"
    /\ last.outcome = "ok"
    /\ last.cacheOk
    /\ JustReturned
    /\ \E i, j \in FreshPositions :
          /\ last.input[i] # last.input[j]
          /\ StoredAsReturned(i)
          /\ StoredAsReturned(j)

----------------------------------------------------------------------------
(* C23.  The gateway never mutates a stored entry.  A predict_single or   *)
(* predict_batch call leaves every entry it was served from exactly as it *)
(* was (value and expiry); a call made of hits only leaves the whole      *)
(* store as it was; no entry is removed; and an entry that is new or      *)
(* changed after the call is, whole, what the call computed for a request *)
(* that missed under that key.                                            *)

HitPositions(call) == {i \in 1..Len(call.input) : call.hits[i]}

MissPositions(call) == {i \in 1..Len(call.input) : ~call.hits[i]}

\* the entry a miss on request o at time t writes
WrittenEntry(o, t) ==
    [value |-> json_dumps(Fresh(o, t)), expireAt |-> t + CACHE_TTL]

\* the keys whose entry the step added, replaced or removed
Touched ==
    {k \in (DOMAIN store) \cup (DOMAIN store') :
        k \notin DOMAIN store \/ k \notin DOMAIN store' \/ store'[k] # store[k]}

C23_GatewayNeverMutates ==
    [][(Called("predict_single") \/ Called("predict_batch")) =>
          /\ \A i \in HitPositions(last') :
                /\ generate_key(last'.input[i]) \in DOMAIN store
                /\ generate_key(last'.input[i]) \notin Touched
          /\ MissPositions(last') = {} => store' = store
          /\ \A k \in Touched :
                /\ k \in DOMAIN store'
                /\ \E i \in MissPositions(last') :
                      /\ k = generate_key(last'.input[i])
                      /\ store'[k] = WrittenEntry(last'.input[i], now)]_vars

(* a returned batch with a hit and a miss: the entry served keeps its     *)
(* earlier expiry, the entry written has the later one                    *)
C23_Witness ==
    /\ last.op = "predict_batch"
    /\ last.outcome = "ok"
    /\ last.hits = <<TRUE, FALSE>>
    /\ JustReturned
    /\ generate_key(last.input[1]) \in DOMAIN store
    /\ generate_key(last.input[2]) \in DOMAIN store
    /\ store[generate_key(last.input[1])].expireAt
           < store[generate_key(last.input[2])].expireAt

----------------------------------------------------------------------------
(* C24.  The categorizer is shared between serving and ETL: for every     *)
(* score, create_risk_label of the ETL pipeline gives the level that      *)
(* _get_risk_level of the prediction service gives.                       *)

C24_CategorizersAgree ==
    last.op = "create_risk_label" =>
        last.output[1] = get_risk_level(last.input[1])

\* the ETL categorizer applied to a score on a threshold
C24_Witness ==
    /\ last.op = "create_risk_label"
    /\ last.input = <<8000>>
    /\ last.output = <<"EXTREME">>

----------------------------------------------------------------------------
(* C25.  A predict_batch call whose model invocation raises (model.predict *)
(* raises, or there is no model to call) returns no result, not even for  *)
(* the requests it found in the cache, and leaves the store exactly as it *)
(* was: nothing has been written for any of its misses.                   *)

ModelCallRaised(call) == call.outcome \in {"ModelError", "AttributeError"}

C25_FailedBatchLeavesNothing ==
    [][(Called("predict_batch") /\ ModelCallRaised(last')) =>
          /\ last'.output = <<>>
          /\ last'.response.status = 500
          /\ store' = store]_vars

(* a batch that failed in model.predict after a hit and a miss, on a      *)
(* working cache: the entry served is there, none for the miss            *)
C25_Witness ==
    /\ last.op = "predict_batch"
    /\ last.outcome = "ModelError"
    /\ last.hits = <<TRUE, FALSE>>
    /\ last.cacheOk
    /\ JustReturned
    /\ generate_key(last.input[1]) \in DOMAIN store
    /\ generate_key(last.input[2]) \notin DOMAIN store

----------------------------------------------------------------------------
(* C26.  Reads do not extend an entry's lifetime.  On the serving path    *)
(* with single predictions, where every entry is written by a miss with   *)
(* the default time to live and carries the time of that write as its     *)
(* timestamp: a hit leaves the store, expiries included, as it was and is *)
(* served only before write time + CACHE_TTL; and when a predict_single   *)
(* call that returned a result written at time T (computed just now, or   *)
(* served as a hit any number of hits after T) is followed by the next    *)
(* predict_single call for the same field values at or after T +          *)
(* CACHE_TTL, that call is a miss and, a model being loaded, invokes the  *)
(* model once.                                                            *)

\* the time the entry behind a returned result was written
WrittenAt(call) == call.output[1].timestamp

ServedOrComputed == last.op = "predict_single" /\ last.outcome = "ok"

ReadAfterExpiry ==
    /\ Called("predict_single")
    /\ SameFields(last'.input[1], last.input[1])
    /\ last'.time >= WrittenAt(last) + CACHE_TTL

C26_ReadsDoNotExtendLifetime ==
    [][/\ (Called("predict_single") /\ last'.hits = <<TRUE>>) =>
              /\ store' = store
              /\ last'.time < WrittenAt(last') + CACHE_TTL
       /\ (ServedOrComputed /\ ReadAfterExpiry) =>
              /\ last'.hits = <<FALSE>>
              /\ last'.loaded => Len(last'.calls) = 1]_vars

(* a hit was served some time after the write, and now the time to live   *)
(* of that write has run out: the entry is gone                           *)
C26_Witness ==
    /\ last.op = "predict_single"
    /\ last.hits = <<TRUE>>
    /\ WrittenAt(last) < last.time
    /\ now >= WrittenAt(last) + CACHE_TTL
    /\ redis_client = "connected"
    /\ backendUp
    /\ model.loaded
    /\ generate_key(last.input[1]) \notin DOMAIN store

----------------------------------------------------------------------------
(* C27.  Cache degradation lasts as long as the process.  A process whose *)
(* constructor found no server has no client, and keeps having none until *)
(* the process is started again, also when the server comes back; while   *)
(* it has none, every get reports absent, every set and clear_all leaves  *)
(* the store as it is, and get_stats reports connected = FALSE.           *)

Degraded == redis_client = "None"

C27_DegradationPermanent ==
    [][Degraded =>
          /\ backendUp' # backendUp => redis_client' = "None"
          /\ redis_client' # "None" => last'.op = "restart"
          /\ Called("get") =>
                (last'.output = NoValue /\ store' = store)
          /\ (Called("set") \/ Called("clear_all")) =>
                (last'.outcome = "ok" /\ store' = store)
          /\ Called("get_stats") =>
                last'.output = <<[connected |-> FALSE]>>
          /\ Called("predict_single") =>
                (last'.hits = <<FALSE>> /\ store' = store)]_vars

(* a get that reported absent although the server answers and holds an    *)
(* entry for the request, written by an earlier process                   *)
C27_Witness ==
    /\ Degraded
    /\ backendUp
    /\ last.op = "get"
    /\ last.output = NoValue
    /\ JustReturned
    /\ generate_key(last.input[1]) \in DOMAIN store

----------------------------------------------------------------------------
(* C28.  total_keys of get_stats on a working store is the number of      *)
(* entries under the "prediction:" prefix, and it is 0 when get_stats     *)
(* follows clear_all at once, also when the database holds keys of other  *)
(* applications.  get_stats reports dbsize(), the number of all keys of   *)
(* the database, so this is violated once another application has         *)
(* written a key.                                                         *)

C28_TotalKeysCountsOwnEntries ==
    [][(Called("get_stats") /\ last'.cacheOk) =>
          /\ last'.output[1].connected
          /\ last'.output[1].total_keys = Cardinality(OwnKeys(store))
          /\ (last.op = "clear_all" /\ last.cacheOk /\ OwnKeys(store) = {}) =>
                last'.output[1].total_keys = 0]_vars

====
